---- MODULE Spec2Model ----
(***************************************************************************)
(* Model of doppel-bot's src/bot.py.                                       *)
(*                                                                         *)
(*   - user_pipeline (lines 215-242): the training orchestrator.  Every    *)
(*     call it makes to the outside (insert_user, respond, scrape.call,    *)
(*     update_state, finetune.call, delete_user) is one step, so that      *)
(*     concurrently spawned invocations interleave between calls.  Every   *)
(*     call inside the try block may raise.                                *)
(*   - handle_app_mentions (lines 126-144): the conversation window.       *)
(*                                                                         *)
(* The job store (.db: insert_user, update_state, delete_user) is not part *)
(* of src/; it is modelled from the specification: a table keyed by        *)
(* (team, user) with an atomic insert-if-absent.                           *)
(***************************************************************************)
EXTENDS Integers, Sequences, FiniteSets, TLC

\* ------------------------------------------------------------------ bounds

\* Number of user_pipeline invocations that can be in flight at once.
NumInv == 2
\* Number of messages conversations_replies returns (at least the message
\* that mentions the bot).
MaxMsgs == 3
\* Budgets tried besides the configured one.
MaxBudget == 6
\* MAX_INPUT_LENGTH = 512 (line 24).
ConfiguredInputLength == 512
\* Number of get_users / get_self_id calls that can be in flight at once.
NumCalls == 2
\* Number of pages users_list needs to list a team.
NumPages == 2
\* Number of tokens a generated text is made of.
MaxTokens == 4

Inv == 1..NumInv
Teams == {"T1"}
Users == {"alice"}
Pairs == Teams \X Users
\* The sample count scrape.call returns.
SampleCounts == {42}
\* Value of a local that has not been assigned a number yet.
Unset == -1

None == "None"

\* The exceptions user_pipeline can catch, named after the call that raised.
Exceptions == {"insert_user", "respond", "scrape", "update_state", "finetune"}
\* The exceptions of the two external collaborators.
CollaboratorFailures == {"scrape", "finetune"}

\* States a stored job record can be in ("registered" is the state the
\* insert gives a new record; the code writes "training" and "success").
JobStates == {"registered", "training", "success"}

\* ------------------------------------------------------------------ state

VARIABLES
    MULTI_WORKSPACE_SLACK_APP, \* the deployment flag (common.py), fixed per run
    jobs,       \* the job store: Pairs -> JobStates \cup {None}
    pc,         \* per invocation: the call it is about to make
    args,       \* per invocation: <<team_id, user>>
    state,      \* per invocation: local `state` returned by insert_user
    handle,     \* per invocation: local `handle` returned by insert_user
    samples,    \* per invocation: local `samples` returned by scrape.call
    e,          \* per invocation: the exception caught by `except`
    progress,   \* per invocation: the texts passed to respond(), in order
    calls,      \* per invocation: collaborator calls made (history)
    registered, \* per invocation: its insert_user created the record (history)
    result,     \* per invocation: "none", "returned" or the exception raised
    rolledBack, \* per pair: the last store call on it was a rollback after a
                \* collaborator failure (history)
    retry       \* per invocation: its insert_user call was the first on its
                \* pair after such a rollback (history)

pvars == <<MULTI_WORKSPACE_SLACK_APP, jobs, pc, args, state, handle, samples,
           e, progress, calls, registered, result, rolledBack, retry>>

VARIABLES
    MAX_INPUT_LENGTH, \* the character budget of line 24, fixed per run
    wpc,        \* position of handle_app_mentions
    messages,   \* line 126-127: the thread's messages, sorted by ts
    inputs,     \* line 130: the fragments collected, newest first
    total,      \* line 131: sum of the lengths of the fragments collected
    scan,       \* index in messages of the next message of the reversed scan
    input       \* line 144: the window handed to the model

wvars == <<MAX_INPUT_LENGTH, wpc, messages, inputs, total, scan, input>>

VARIABLES
    users_cache, \* line 21: team -> <<>> (no entry) or <<table>>
    self_cache,  \* line 22: team -> <<>> (no entry) or <<user id>>
    edits,       \* per team: 1 once its members have changed their profiles
    cpc,         \* per call: position in get_users / get_self_id
    fn,          \* per call: "get_users" or "get_self_id"
    team,        \* per call: argument team_id
    users,       \* per call: local `users` of get_users, a set of <<key, value>>
    cursor,      \* per call: local `cursor` of get_users (0 is None)
    returned,    \* per call: <<>>, or <<value returned>>
    raised,      \* per call: "None", or the fetch whose exception left the call
    fetches,     \* per call: users_list / auth_test calls made (history)
    hit          \* per call: its cache lookup found an entry (history)

cvars == <<users_cache, self_cache, edits, cpc, fn, team, users, cursor,
           returned, raised, fetches, hit>>

VARIABLES
    dpc,            \* position of handle_app_mentions from line 147 on
    speakers,       \* line 166: the ids u of users.values(), in order
    res,            \* line 153: the generated text
    split_messages, \* line 167: `messages`, the result of re.split
    next_message,   \* lines 171-179: index of the loop over `messages`
    posted          \* the texts handed to chat_postMessage, in order

dvars == <<dpc, speakers, res, split_messages, next_message, posted>>

vars == <<pvars, wvars, cvars, dvars>>

\* What user_pipeline leaves alone, what the window of handle_app_mentions
\* leaves alone, what the identity cache leaves alone, and what the posting
\* of the generated text leaves alone.
notPipeline == <<wvars, cvars, dvars>>
notWindow == <<pvars, cvars, dvars>>
notCache == <<pvars, wvars, dvars>>
notSplit == <<pvars, wvars, cvars>>

\* ------------------------------------------------------------------ job store

\* insert-if-absent: (state, handle) of the existing record, or (None, None)
\* after creating the record.
insert_user(js, team_id, user) ==
    IF js[<<team_id, user>>] = None
    THEN [jobs |-> [js EXCEPT ![<<team_id, user>>] = "registered"],
          state |-> None, handle |-> None]
    ELSE [jobs |-> js, state |-> js[<<team_id, user>>], handle |-> user]

\* update-state: changes the state of the pair's record, if there is one.
update_state(js, team_id, user, s) ==
    IF js[<<team_id, user>>] = None THEN js
    ELSE [js EXCEPT ![<<team_id, user>>] = s]

\* delete: removes the pair's record.
delete_user(js, team_id, user) == [js EXCEPT ![<<team_id, user>>] = None]

\* ------------------------------------------------------------------ texts

\* A report text is kept as its kind and the values formatted into it.  Record
\* constructors, here and below, list their fields in the order in which TLC
\* keeps them, so that TLC never has to reorder a record in place.

\* f"Team {team_id} already has {handle} registered (state={state})."
AlreadyMsg(team_id, h, s) ==
    [state |-> s, handle |-> h, kind |-> "already", team |-> team_id]
\* f"Began scraping {user}."
BeganMsg(user) == [user |-> user, kind |-> "began"]
\* f"Finished scraping {user} (found {samples} samples), starting training."
ScrapedMsg(user, n) == [samples |-> n, user |-> user, kind |-> "scraped"]
\* f"Finished training {user} after {time.time() - t0:.2f} seconds."
TrainedMsg(user) == [user |-> user, kind |-> "trained"]
\* f"Failed to train {user} ({e}). Try again in a bit!"
FailedMsg(user, exc) == [user |-> user, kind |-> "failed", reason |-> exc]

\* ------------------------------------------------------------------ user_pipeline

team_id(i) == args[i][1]
user(i) == args[i][2]

PInit ==
    /\ MULTI_WORKSPACE_SLACK_APP \in BOOLEAN
    /\ jobs = [p \in Pairs |-> None]
    /\ pc = [i \in Inv |-> "idle"]
    /\ args = [i \in Inv |-> <<"T1", "alice">>]
    /\ state = [i \in Inv |-> None]
    /\ handle = [i \in Inv |-> None]
    /\ samples = [i \in Inv |-> Unset]
    /\ e = [i \in Inv |-> None]
    /\ progress = [i \in Inv |-> <<>>]
    /\ calls = [i \in Inv |-> [scrape |-> 0, finetune |-> 0]]
    /\ registered = [i \in Inv |-> FALSE]
    /\ result = [i \in Inv |-> "none"]
    /\ rolledBack = [p \in Pairs |-> FALSE]
    /\ retry = [i \in Inv |-> FALSE]

\* The states the code writes: lines 228 and 237.
TrainingState == "training"
SuccessState == "success"

\* Line 219 without the test of the flag: the start always registers.
FirstCallAlwaysRegisters(flag) == "insert_user"
\* The first call of the try block: line 219.
FirstCall(flag) == IF flag THEN "insert_user" ELSE "respond_began"

\* Lines 221-223 without the `handle is not None` test.
AfterInsertUnchecked(h) == "respond_began"
\* Lines 221-223: a record that already existed ends the invocation with a
\* report; otherwise collection starts.
AfterInsert(h) == IF h # None THEN "respond_already" ELSE "respond_began"

\* Lines 238-239 with the exception swallowed: the pipeline goes on to train.
RaiseIgnored(i, exc) ==
    /\ pc' = [pc EXCEPT ![i] = "finetune"]
    /\ e' = [e EXCEPT ![i] = exc]
\* Lines 238-239: any exception raised inside the try block is caught and the
\* handler starts with the failure report.
Raise(i, exc) ==
    /\ pc' = [pc EXCEPT ![i] = "except_respond"]
    /\ e' = [e EXCEPT ![i] = exc]

\* respond(text=...): the report is issued, whether or not the call then raises.
respond(i, text) == progress' = [progress EXCEPT ![i] = Append(@, text)]

\* user_pipeline.spawn(team_id, client.token, user, respond): line 191.
Spawn(i, t, u) ==
    /\ pc[i] = "idle"
    /\ pc' = [pc EXCEPT ![i] = FirstCall(MULTI_WORKSPACE_SLACK_APP)]
    /\ args' = [args EXCEPT ![i] = <<t, u>>]
    /\ UNCHANGED <<MULTI_WORKSPACE_SLACK_APP, jobs, state, handle, samples, e,
                   progress, calls, registered, result>>
    /\ UNCHANGED <<rolledBack, retry>>
    /\ UNCHANGED notPipeline

\* Line 220: state, handle = insert_user(team_id, user).
InsertUser(i) ==
    /\ pc[i] = "insert_user"
    /\ retry' = [retry EXCEPT ![i] = rolledBack[args[i]]]
    /\ rolledBack' = [rolledBack EXCEPT ![args[i]] = FALSE]
    /\ \/ LET r == insert_user(jobs, team_id(i), user(i)) IN
          /\ jobs' = r.jobs
          /\ state' = [state EXCEPT ![i] = r.state]
          /\ handle' = [handle EXCEPT ![i] = r.handle]
          /\ registered' = [registered EXCEPT ![i] = (r.handle = None)]
          /\ pc' = [pc EXCEPT ![i] = AfterInsert(r.handle)]
          /\ UNCHANGED e
       \/ /\ Raise(i, "insert_user")
          /\ UNCHANGED <<jobs, state, handle, registered>>
    /\ UNCHANGED <<MULTI_WORKSPACE_SLACK_APP, args, samples, progress, calls, result>>
    /\ UNCHANGED notPipeline

\* Line 222: return respond(text="Team ... already has ... registered ...").
RespondAlready(i) ==
    /\ pc[i] = "respond_already"
    /\ respond(i, AlreadyMsg(team_id(i), handle[i], state[i]))
    /\ \/ /\ pc' = [pc EXCEPT ![i] = "done"]
          /\ result' = [result EXCEPT ![i] = "returned"]
          /\ UNCHANGED e
       \/ /\ Raise(i, "respond")
          /\ UNCHANGED result
    /\ UNCHANGED <<MULTI_WORKSPACE_SLACK_APP, jobs, args, state, handle, samples,
                   calls, registered>>
    /\ UNCHANGED <<rolledBack, retry>>
    /\ UNCHANGED notPipeline

\* Line 223: respond(text="Began scraping ...").
RespondBegan(i) ==
    /\ pc[i] = "respond_began"
    /\ respond(i, BeganMsg(user(i)))
    /\ \/ /\ pc' = [pc EXCEPT ![i] = "scrape"]
          /\ UNCHANGED e
       \/ Raise(i, "respond")
    /\ UNCHANGED <<MULTI_WORKSPACE_SLACK_APP, jobs, args, state, handle, samples,
                   calls, registered, result>>
    /\ UNCHANGED <<rolledBack, retry>>
    /\ UNCHANGED notPipeline

\* Line 224: samples = scrape.call(user, team_id, bot_token=token).
Scrape(i) ==
    /\ pc[i] = "scrape"
    /\ calls' = [calls EXCEPT ![i].scrape = @ + 1]
    /\ \/ \E n \in SampleCounts :
             /\ samples' = [samples EXCEPT ![i] = n]
             /\ pc' = [pc EXCEPT ![i] = "respond_scraped"]
             /\ UNCHANGED e
       \/ /\ Raise(i, "scrape")
          /\ UNCHANGED samples
    /\ UNCHANGED <<MULTI_WORKSPACE_SLACK_APP, jobs, args, state, handle, progress,
                   registered, result>>
    /\ UNCHANGED <<rolledBack, retry>>
    /\ UNCHANGED notPipeline

\* Lines 225-227: respond(text="Finished scraping ... starting training.").
AfterScraped(flag) == IF flag THEN "update_training" ELSE "finetune"

RespondScraped(i) ==
    /\ pc[i] = "respond_scraped"
    /\ respond(i, ScrapedMsg(user(i), samples[i]))
    /\ \/ /\ pc' = [pc EXCEPT ![i] = AfterScraped(MULTI_WORKSPACE_SLACK_APP)]
          /\ UNCHANGED e
       \/ Raise(i, "respond")
    /\ UNCHANGED <<MULTI_WORKSPACE_SLACK_APP, jobs, args, state, handle, samples,
                   calls, registered, result>>
    /\ UNCHANGED <<rolledBack, retry>>
    /\ UNCHANGED notPipeline

\* Line 228: update_state(team_id, user, "training").
UpdateTraining(i) ==
    /\ pc[i] = "update_training"
    /\ \/ /\ jobs' = update_state(jobs, team_id(i), user(i), TrainingState)
          /\ pc' = [pc EXCEPT ![i] = "finetune"]
          /\ UNCHANGED e
       \/ /\ Raise(i, "update_state")
          /\ UNCHANGED jobs
    /\ UNCHANGED <<MULTI_WORKSPACE_SLACK_APP, args, state, handle, samples,
                   progress, calls, registered, result>>
    /\ UNCHANGED <<rolledBack, retry>>
    /\ UNCHANGED notPipeline

\* Line 232: finetune.call(user, team_id).
Finetune(i) ==
    /\ pc[i] = "finetune"
    /\ calls' = [calls EXCEPT ![i].finetune = @ + 1]
    /\ \/ /\ pc' = [pc EXCEPT ![i] = "respond_trained"]
          /\ UNCHANGED e
       \/ Raise(i, "finetune")
    /\ UNCHANGED <<MULTI_WORKSPACE_SLACK_APP, jobs, args, state, handle, samples,
                   progress, registered, result>>
    /\ UNCHANGED <<rolledBack, retry>>
    /\ UNCHANGED notPipeline

\* Lines 234-236: respond(text="Finished training ..."); without the flag the
\* function ends here.
RespondTrained(i) ==
    /\ pc[i] = "respond_trained"
    /\ respond(i, TrainedMsg(user(i)))
    /\ \/ /\ IF MULTI_WORKSPACE_SLACK_APP
             THEN /\ pc' = [pc EXCEPT ![i] = "update_success"]
                  /\ UNCHANGED result
             ELSE /\ pc' = [pc EXCEPT ![i] = "done"]
                  /\ result' = [result EXCEPT ![i] = "returned"]
          /\ UNCHANGED e
       \/ /\ Raise(i, "respond")
          /\ UNCHANGED result
    /\ UNCHANGED <<MULTI_WORKSPACE_SLACK_APP, jobs, args, state, handle, samples,
                   calls, registered>>
    /\ UNCHANGED <<rolledBack, retry>>
    /\ UNCHANGED notPipeline

\* Line 237: update_state(team_id, user, "success"), then the function returns.
UpdateSuccess(i) ==
    /\ pc[i] = "update_success"
    /\ \/ /\ jobs' = update_state(jobs, team_id(i), user(i), SuccessState)
          /\ pc' = [pc EXCEPT ![i] = "done"]
          /\ result' = [result EXCEPT ![i] = "returned"]
          /\ UNCHANGED e
       \/ /\ Raise(i, "update_state")
          /\ UNCHANGED <<jobs, result>>
    /\ UNCHANGED <<MULTI_WORKSPACE_SLACK_APP, args, state, handle, samples,
                   progress, calls, registered>>
    /\ UNCHANGED <<rolledBack, retry>>
    /\ UNCHANGED notPipeline

\* Lines 239-242: respond(text="Failed to train ...").  If this call raises,
\* its exception leaves the handler at once: delete_user is not reached.
\* Without the flag, `raise e` follows directly.
ExceptRespond(i) ==
    /\ pc[i] = "except_respond"
    /\ respond(i, FailedMsg(user(i), e[i]))
    /\ \/ /\ IF MULTI_WORKSPACE_SLACK_APP
             THEN /\ pc' = [pc EXCEPT ![i] = "delete_user"]
                  /\ UNCHANGED result
             ELSE /\ pc' = [pc EXCEPT ![i] = "done"]
                  /\ result' = [result EXCEPT ![i] = e[i]]
       \/ /\ pc' = [pc EXCEPT ![i] = "done"]
          /\ result' = [result EXCEPT ![i] = "respond"]
    /\ UNCHANGED <<MULTI_WORKSPACE_SLACK_APP, jobs, args, state, handle, samples,
                   e, calls, registered>>
    /\ UNCHANGED <<rolledBack, retry>>
    /\ UNCHANGED notPipeline

\* Lines 241-242 marking the record failed instead of deleting it.
RollbackMarksFailed(js, t, u) == update_state(js, t, u, "failed")
\* Line 241: delete_user(team_id, user).
Rollback(js, t, u) == delete_user(js, t, u)

\* Lines 241-242: delete_user(team_id, user); raise e.
DeleteUser(i) ==
    /\ pc[i] = "delete_user"
    /\ jobs' = Rollback(jobs, team_id(i), user(i))
    /\ pc' = [pc EXCEPT ![i] = "done"]
    /\ result' = [result EXCEPT ![i] = e[i]]
    /\ rolledBack' = [rolledBack EXCEPT ![args[i]] = (e[i] \in CollaboratorFailures)]
    /\ UNCHANGED retry
    /\ UNCHANGED <<MULTI_WORKSPACE_SLACK_APP, args, state, handle, samples, e,
                   progress, calls, registered>>
    /\ UNCHANGED notPipeline

\* The invocation is over; its slot serves the next spawn.
Finish(i) ==
    /\ pc[i] = "done"
    /\ pc' = [pc EXCEPT ![i] = "idle"]
    /\ args' = [args EXCEPT ![i] = <<"T1", "alice">>]
    /\ state' = [state EXCEPT ![i] = None]
    /\ handle' = [handle EXCEPT ![i] = None]
    /\ samples' = [samples EXCEPT ![i] = Unset]
    /\ e' = [e EXCEPT ![i] = None]
    /\ progress' = [progress EXCEPT ![i] = <<>>]
    /\ calls' = [calls EXCEPT ![i] = [scrape |-> 0, finetune |-> 0]]
    /\ registered' = [registered EXCEPT ![i] = FALSE]
    /\ result' = [result EXCEPT ![i] = "none"]
    /\ retry' = [retry EXCEPT ![i] = FALSE]
    /\ UNCHANGED <<MULTI_WORKSPACE_SLACK_APP, jobs, rolledBack>>
    /\ UNCHANGED notPipeline

\* Invocation i is inside user_pipeline.
Running(i) == pc[i] \notin {"idle", "done"}

user_pipeline(i) ==
    \/ InsertUser(i)
    \/ RespondAlready(i)
    \/ RespondBegan(i)
    \/ Scrape(i)
    \/ RespondScraped(i)
    \/ UpdateTraining(i)
    \/ Finetune(i)
    \/ RespondTrained(i)
    \/ UpdateSuccess(i)
    \/ ExceptRespond(i)
    \/ DeleteUser(i)

PNext ==
    \E i \in Inv :
        \/ \E t \in Teams, u \in Users : Spawn(i, t, u)
        \/ user_pipeline(i)
        \/ Finish(i)

\* ------------------------------------------------------------------ texts of messages

\* A text is a sequence of characters.

\* The bot's own user id, and the mention token f"<@{self_id}>" of line 137.
SelfId == <<"U">>
SelfMention == <<"<", "@">> \o SelfId \o <<">">>

\* The texts a message can carry: empty, plain, with a mention of the bot,
\* and with one mention token wrapped around another.
Texts ==
    { <<>>,
      <<"a">>,
      SelfMention \o <<"a", "b">>,
      <<"<", "@">> \o SelfMention \o <<"U", ">">> }
\* The senders a message can have; a message may also lack the "user" key.
Senders == { <<"V">> }

\* A message of the thread, without its timestamp.
MsgBodies ==
    [text : Texts] \cup [user : Senders, text : Texts]

\* ------------------------------------------------------------------ handle_app_mentions

\* str.replace(old, ""): every non-overlapping occurrence of old, found left
\* to right in one pass, is removed.
StartsWith(s, old) == Len(s) >= Len(old) /\ SubSeq(s, 1, Len(old)) = old

RECURSIVE Replace(_, _)
Replace(s, old) ==
    IF s = <<>> THEN <<>>
    ELSE IF StartsWith(s, old)
         THEN Replace(SubSeq(s, Len(old) + 1, Len(s)), old)
         ELSE <<Head(s)>> \o Replace(Tail(s), old)

\* Lines 133-137: the fragment of one message.
Fragment(m) ==
    LET i == IF "user" \in DOMAIN m
             THEN m.user \o <<":", " ">> \o m.text
             ELSE m.text
    IN Replace(i, SelfMention)

\* list.sort(key=lambda m: m["ts"]): stable, ascending.  Slack timestamps
\* are fixed-width digit strings, so their string order is the numeric one.
RECURSIVE Insert(_, _)
Insert(m, sorted) ==
    IF sorted = <<>> THEN <<m>>
    ELSE IF sorted[Len(sorted)].ts <= m.ts
         THEN Append(sorted, m)
         ELSE Append(Insert(m, SubSeq(sorted, 1, Len(sorted) - 1)),
                     sorted[Len(sorted)])

RECURSIVE SortByTs(_)
SortByTs(ms) ==
    IF ms = <<>> THEN <<>>
    ELSE Insert(ms[Len(ms)], SortByTs(SubSeq(ms, 1, Len(ms) - 1)))

Reverse(s) == [k \in 1..Len(s) |-> s[Len(s) + 1 - k]]

\* Line 144 without reversed(): the fragments in the order of the scan.
AsScanned(s) == s
\* Line 144: reversed(inputs).
Chronological(s) == Reverse(s)

\* "\n".join(parts)
RECURSIVE JoinLines(_)
JoinLines(parts) ==
    IF parts = <<>> THEN <<>>
    ELSE IF Len(parts) = 1 THEN parts[1]
         ELSE parts[1] \o <<"\n">> \o JoinLines(Tail(parts))

\* Lines 141-142 without the break.
NeverExceeded(t, budget) == FALSE
\* Line 141: total > MAX_INPUT_LENGTH.
Exceeded(t, budget) == t > budget

\* The orders in which conversations_replies can list n messages: any.
Orders(n) == Permutations(1..n)

\* A list conversations_replies can return: messages with distinct
\* timestamps.
Replies(body, order) ==
    [k \in DOMAIN body |->
        IF "user" \in DOMAIN body[k]
        THEN [user |-> body[k].user, text |-> body[k].text, ts |-> order[k]]
        ELSE [text |-> body[k].text, ts |-> order[k]]]

WInit ==
    /\ MAX_INPUT_LENGTH \in (0..MaxBudget) \cup {ConfiguredInputLength}
    /\ wpc = "idle"
    /\ messages = <<>>
    /\ inputs = <<>>
    /\ total = 0
    /\ scan = 0
    /\ input = <<>>

\* Lines 126-131: fetch the thread, sort it, start the scan at its end.
FetchReplies ==
    /\ wpc = "idle"
    /\ \E n \in 1..MaxMsgs :
          \E body \in [1..n -> MsgBodies], order \in Orders(n) :
              LET replies == Replies(body, order) IN
              /\ messages' = SortByTs(replies)
              /\ scan' = Len(replies)
    /\ inputs' = <<>>
    /\ total' = 0
    /\ input' = <<>>
    /\ wpc' = "scan"
    /\ UNCHANGED MAX_INPUT_LENGTH
    /\ UNCHANGED notWindow

\* Lines 132-142: one round of the loop over reversed(messages).
ScanMessage ==
    /\ wpc = "scan"
    /\ scan >= 1
    /\ LET i == Fragment(messages[scan]) IN
          /\ inputs' = Append(inputs, i)
          /\ total' = total + Len(i)
          /\ scan' = IF Exceeded(total + Len(i), MAX_INPUT_LENGTH)
                     THEN 0 ELSE scan - 1
    /\ UNCHANGED <<MAX_INPUT_LENGTH, wpc, messages, input>>
    /\ UNCHANGED notWindow

\* Line 144: input = "\n".join(reversed(inputs)).
JoinInputs ==
    /\ wpc = "scan"
    /\ scan = 0
    /\ input' = JoinLines(Chronological(inputs))
    /\ wpc' = "done"
    /\ UNCHANGED <<MAX_INPUT_LENGTH, messages, inputs, total, scan>>
    /\ UNCHANGED notWindow

\* The handler is over; the next mention starts from scratch.
WFinish ==
    /\ wpc = "done"
    /\ wpc' = "idle"
    /\ messages' = <<>>
    /\ inputs' = <<>>
    /\ total' = 0
    /\ scan' = 0
    /\ input' = <<>>
    /\ UNCHANGED MAX_INPUT_LENGTH
    /\ UNCHANGED notWindow

WNext ==
    \/ FetchReplies
    \/ ScanMessage
    \/ JoinInputs
    \/ WFinish

\* ------------------------------------------------------------------ get_users, get_self_id

CInv == 1..NumCalls
CTeams == Teams

\* The member listed on page k of users_list, before (n = 0) or after (n = 1)
\* the profile change:
\* <<display_name, real_name, id, image_512>>.  The real name of a member is
\* the display name of the member before it, so that keys collide.
Member(k, n) ==
    << <<"name", k>>,
       IF k > 1 THEN <<"name", k - 1>> ELSE <<"real", k>>,
       <<"U", k>>,
       <<"image", k, n>> >>

\* client.auth_test(team_id=team_id)["user_id"]
BotUserId(t) == <<"bot", t>>

\* Lines 38-39: users[key] = value, the last writer winning.
Put(table, key, value) == {x \in table : x[1] # key} \cup {<<key, value>>}

\* Lines 37-39: the loop body for one member.
AddMember(table, m) ==
    Put(Put(table, m[1], <<m[3], m[4]>>), m[2], <<m[3], m[4]>>)

\* Line 41 with the test inverted.
HasMoreInverted(k) == ~(k < NumPages)
\* result["has_more"] for page k.
HasMore(k) == k < NumPages

\* Lines 29-31, 50-53 with every lookup a miss.
NeverCached(entry) == FALSE
\* Lines 29-31, 50-53: the lookup raises KeyError when there is no entry.
Cached(entry) == entry # <<>>

\* An exception of users_list or auth_test that also stores what the call
\* holds so far.
CachePoisoned(cache, t, partial) == [cache EXCEPT ![t] = <<partial>>]
\* Lines 36, 54: an exception of users_list or auth_test leaves the function
\* before line 45, respectively before the store of line 54.
CacheAfterFailure(cache, t, partial) == cache

CInit ==
    /\ users_cache = [t \in CTeams |-> <<>>]
    /\ self_cache = [t \in CTeams |-> <<>>]
    /\ edits = [t \in CTeams |-> 0]
    /\ cpc = [c \in CInv |-> "idle"]
    /\ fn = [c \in CInv |-> "get_users"]
    /\ team = [c \in CInv |-> "T1"]
    /\ users = [c \in CInv |-> {}]
    /\ cursor = [c \in CInv |-> 0]
    /\ returned = [c \in CInv |-> <<>>]
    /\ raised = [c \in CInv |-> None]
    /\ fetches = [c \in CInv |-> 0]
    /\ hit = [c \in CInv |-> FALSE]

\* Lines 123-124, 185: a handler calls get_users or get_self_id.
Call(c, f, t) ==
    /\ cpc[c] = "idle"
    /\ cpc' = [cpc EXCEPT ![c] = "lookup"]
    /\ fn' = [fn EXCEPT ![c] = f]
    /\ team' = [team EXCEPT ![c] = t]
    /\ UNCHANGED <<users_cache, self_cache, edits, users, cursor, returned,
                   raised, fetches, hit>>
    /\ UNCHANGED notCache

\* Lines 29-34: users = stub.app.users_cache[team_id], or on KeyError
\* users = {} and cursor = None.
LookupUsers(c) ==
    /\ cpc[c] = "lookup" /\ fn[c] = "get_users"
    /\ IF Cached(users_cache[team[c]])
       THEN /\ returned' = [returned EXCEPT ![c] = users_cache[team[c]]]
            /\ hit' = [hit EXCEPT ![c] = TRUE]
            /\ cpc' = [cpc EXCEPT ![c] = "done"]
            /\ UNCHANGED <<users, cursor>>
       ELSE /\ users' = [users EXCEPT ![c] = {}]
            /\ cursor' = [cursor EXCEPT ![c] = 0]
            /\ cpc' = [cpc EXCEPT ![c] = "users_list"]
            /\ UNCHANGED <<returned, hit>>
    /\ UNCHANGED <<users_cache, self_cache, edits, fn, team, raised, fetches>>
    /\ UNCHANGED notCache

\* Lines 36-44: one round of the loop: users_list returns the page after
\* `cursor`, or raises.
UsersList(c) ==
    /\ cpc[c] = "users_list"
    /\ fetches' = [fetches EXCEPT ![c] = @ + 1]
    /\ \/ LET k == cursor[c] + 1 IN
          /\ users' = [users EXCEPT ![c] = AddMember(@, Member(k, edits[team[c]]))]
          /\ IF HasMore(k)
             THEN /\ cursor' = [cursor EXCEPT ![c] = k]
                  /\ UNCHANGED cpc
             ELSE /\ cpc' = [cpc EXCEPT ![c] = "store_users"]
                  /\ UNCHANGED cursor
          /\ UNCHANGED <<users_cache, raised>>
       \/ /\ raised' = [raised EXCEPT ![c] = "users_list"]
          /\ cpc' = [cpc EXCEPT ![c] = "done"]
          /\ users_cache' = CacheAfterFailure(users_cache, team[c], users[c])
          /\ UNCHANGED <<users, cursor>>
    /\ UNCHANGED <<self_cache, edits, fn, team, returned, hit>>
    /\ UNCHANGED notCache

\* Lines 45-46: stub.app.users_cache[team_id] = users; return users.
StoreUsers(c) ==
    /\ cpc[c] = "store_users"
    /\ users_cache' = [users_cache EXCEPT ![team[c]] = <<users[c]>>]
    /\ returned' = [returned EXCEPT ![c] = <<users[c]>>]
    /\ cpc' = [cpc EXCEPT ![c] = "done"]
    /\ UNCHANGED <<self_cache, edits, fn, team, users, cursor, raised, fetches, hit>>
    /\ UNCHANGED notCache

\* Lines 50-53: return stub.app.self_cache[team_id], or on KeyError go on to
\* auth_test.
LookupSelf(c) ==
    /\ cpc[c] = "lookup" /\ fn[c] = "get_self_id"
    /\ IF Cached(self_cache[team[c]])
       THEN /\ returned' = [returned EXCEPT ![c] = self_cache[team[c]]]
            /\ hit' = [hit EXCEPT ![c] = TRUE]
            /\ cpc' = [cpc EXCEPT ![c] = "done"]
       ELSE /\ cpc' = [cpc EXCEPT ![c] = "auth_test"]
            /\ UNCHANGED <<returned, hit>>
    /\ UNCHANGED <<users_cache, self_cache, edits, fn, team, users, cursor,
                   raised, fetches>>
    /\ UNCHANGED notCache

\* Line 54, right-hand side: client.auth_test(team_id=team_id)["user_id"].
AuthTest(c) ==
    /\ cpc[c] = "auth_test"
    /\ fetches' = [fetches EXCEPT ![c] = @ + 1]
    /\ \/ /\ cpc' = [cpc EXCEPT ![c] = "store_self"]
          /\ UNCHANGED <<self_cache, raised>>
       \/ /\ raised' = [raised EXCEPT ![c] = "auth_test"]
          /\ cpc' = [cpc EXCEPT ![c] = "done"]
          /\ self_cache' = CacheAfterFailure(self_cache, team[c], BotUserId(team[c]))
    /\ UNCHANGED <<users_cache, edits, fn, team, users, cursor, returned, hit>>
    /\ UNCHANGED notCache

\* Lines 54-55: stub.app.self_cache[team_id] = self_id = ...; return self_id.
StoreSelf(c) ==
    /\ cpc[c] = "store_self"
    /\ self_cache' = [self_cache EXCEPT ![team[c]] = <<BotUserId(team[c])>>]
    /\ returned' = [returned EXCEPT ![c] = <<BotUserId(team[c])>>]
    /\ cpc' = [cpc EXCEPT ![c] = "done"]
    /\ UNCHANGED <<users_cache, edits, fn, team, users, cursor, raised, fetches, hit>>
    /\ UNCHANGED notCache

\* The call is over; its slot serves the next call.
CFinish(c) ==
    /\ cpc[c] = "done"
    /\ cpc' = [cpc EXCEPT ![c] = "idle"]
    /\ fn' = [fn EXCEPT ![c] = "get_users"]
    /\ team' = [team EXCEPT ![c] = "T1"]
    /\ users' = [users EXCEPT ![c] = {}]
    /\ cursor' = [cursor EXCEPT ![c] = 0]
    /\ returned' = [returned EXCEPT ![c] = <<>>]
    /\ raised' = [raised EXCEPT ![c] = None]
    /\ fetches' = [fetches EXCEPT ![c] = 0]
    /\ hit' = [hit EXCEPT ![c] = FALSE]
    /\ UNCHANGED <<users_cache, self_cache, edits>>
    /\ UNCHANGED notCache

\* The workspace: members of team t change their avatars, so that a later
\* users_list page differs from an earlier one.
EditProfiles(t) ==
    /\ edits[t] = 0
    /\ edits' = [edits EXCEPT ![t] = 1]
    /\ UNCHANGED <<users_cache, self_cache, cpc, fn, team, users, cursor,
                   returned, raised, fetches, hit>>
    /\ UNCHANGED notCache

get_users(c) == LookupUsers(c) \/ UsersList(c) \/ StoreUsers(c)

get_self_id(c) == LookupSelf(c) \/ AuthTest(c) \/ StoreSelf(c)

CNext ==
    \/ \E c \in CInv :
          \/ \E f \in {"get_users", "get_self_id"}, t \in CTeams : Call(c, f, t)
          \/ get_users(c)
          \/ get_self_id(c)
          \/ CFinish(c)
    \/ \E t \in CTeams : EditProfiles(t)

\* ------------------------------------------------------------------ re.split and the posting loop

\* The user ids of a team.  Slack ids are made of letters and digits, so
\* f"{u}: " holds no character that is special in a regular expression.
Ids == { <<"U">>, <<"V">>, <<"U", "V">> }

\* list(users.values()), ids only: every sequence of at most two ids, an
\* id possibly twice (users holds a member under two keys).
SpeakerLists == UNION { [1..n -> Ids] : n \in 0..2 }

\* What a generated text is made of: prefixes of speakers, a letter, a
\* blank, and the pieces of a prefix on their own.
Tokens ==
    { <<"U", ":", " ">>, <<"V", ":", " ">>, <<"a">>, <<" ">>, <<"U">>, <<":">> }

RECURSIVE Flatten(_)
Flatten(toks) == IF toks = <<>> THEN <<>> ELSE Head(toks) \o Flatten(Tail(toks))

\* The texts model.generate can return.
Generated == { Flatten(toks) : toks \in UNION { [1..n -> Tokens] : n \in 0..MaxTokens } }

\* Line 166: the alternatives of exp = "|".join([f"{u}: " for u, _ in
\* users.values()]), in order.
Alternatives(ids) == [i \in 1..Len(ids) |-> ids[i] \o <<":", " ">>]

\* A matcher that takes any id followed by ": " for a speaker.
MatchAnySpeaker(s, alts) ==
    IF \E u \in Ids : StartsWith(s, u \o <<":", " ">>)
    THEN (CHOOSE u \in Ids : StartsWith(s, u \o <<":", " ">>)) \o <<":", " ">>
    ELSE <<>>
\* The match of an alternation at the head of s: that of its first
\* alternative that matches, <<>> when none does (no alternative is empty).
RECURSIVE MatchAtHead(_, _)
MatchAtHead(s, alts) ==
    IF alts = <<>> THEN <<>>
    ELSE IF StartsWith(s, Head(alts)) THEN Head(alts)
    ELSE MatchAtHead(s, Tail(alts))

\* re.split for a pattern that matches no empty string: the text before the
\* leftmost match, then the split of the text after that match; `piece` is
\* the text passed over since the last match.
RECURSIVE SplitFrom(_, _, _)
SplitFrom(piece, s, alts) ==
    IF s = <<>> THEN <<piece>>
    ELSE LET m == MatchAtHead(s, alts) IN
         IF m # <<>>
         THEN <<piece>> \o SplitFrom(<<>>, SubSeq(s, Len(m) + 1, Len(s)), alts)
         ELSE SplitFrom(Append(piece, Head(s)), Tail(s), alts)

\* Line 167: re.split(exp, res).  The empty pattern (no alternative) matches
\* between all characters.
ReSplit(alts, s) ==
    IF alts = <<>>
    THEN << <<>> >> \o [k \in 1..Len(s) |-> <<s[k]>>] \o << <<>> >>
    ELSE SplitFrom(<<>>, s, alts)

\* Line 172 with the test left out.
AlwaysTruthy(message) == TRUE
\* Line 172: `if message`.
Truthy(message) == message # <<>>

DInit ==
    /\ dpc = "idle" /\ speakers = <<>> /\ res = <<>>
    /\ split_messages = <<>> /\ next_message = 0 /\ posted = <<>>

\* Lines 123, 147-150: users = get_users(...); the handler returns when
\* get_user_for_team_id finds no trained user among users.keys(), so that
\* `users` is not empty from line 150 on.
Mention ==
    /\ dpc = "idle"
    /\ \E ids \in SpeakerLists, found \in BOOLEAN :
          /\ speakers' = ids
          /\ dpc' = IF found /\ ids # <<>> THEN "generate" ELSE "done"
    /\ UNCHANGED <<res, split_messages, next_message, posted>>
    /\ UNCHANGED notSplit

\* Lines 152-164: res = model.generate(...).
Generate ==
    /\ dpc = "generate"
    /\ \E text \in Generated : res' = text
    /\ dpc' = "split"
    /\ UNCHANGED <<speakers, split_messages, next_message, posted>>
    /\ UNCHANGED notSplit

\* Lines 166-167: exp = ...; messages = re.split(exp, res).
SplitResponse ==
    /\ dpc = "split"
    /\ split_messages' = ReSplit(Alternatives(speakers), res)
    /\ next_message' = 1
    /\ dpc' = "post"
    /\ UNCHANGED <<speakers, res, posted>>
    /\ UNCHANGED notSplit

\* Lines 171-179: one round of the loop; the loop ends after the last
\* message.
PostMessage ==
    /\ dpc = "post"
    /\ IF next_message <= Len(split_messages)
       THEN /\ posted' = IF Truthy(split_messages[next_message])
                         THEN Append(posted, split_messages[next_message])
                         ELSE posted
            /\ next_message' = next_message + 1
            /\ UNCHANGED dpc
       ELSE /\ dpc' = "done"
            /\ UNCHANGED <<posted, next_message>>
    /\ UNCHANGED <<speakers, res, split_messages>>
    /\ UNCHANGED notSplit

\* The handler has returned; the next mention is handled.
DFinish ==
    /\ dpc = "done"
    /\ dpc' = "idle" /\ speakers' = <<>> /\ res' = <<>>
    /\ split_messages' = <<>> /\ next_message' = 0 /\ posted' = <<>>
    /\ UNCHANGED notSplit

DNext == Mention \/ Generate \/ SplitResponse \/ PostMessage \/ DFinish

\* ------------------------------------------------------------------ specifications

\* The window handler at rest, with the configured budget.
WQuiet ==
    /\ MAX_INPUT_LENGTH = ConfiguredInputLength
    /\ wpc = "idle" /\ messages = <<>> /\ inputs = <<>>
    /\ total = 0 /\ scan = 0 /\ input = <<>>

\* No training pipeline spawned.
PQuiet == PInit /\ MULTI_WORKSPACE_SLACK_APP = FALSE

\* The training pipeline: concurrent invocations of user_pipeline.
Init == PInit /\ WQuiet /\ CInit /\ DInit
Next == PNext
Spec == Init /\ [][Next]_vars

\* The conversation window of handle_app_mentions.
WindowInit == WInit /\ PQuiet /\ CInit /\ DInit
WindowNext == WNext
SpecWindow == WindowInit /\ [][WindowNext]_vars

\* The identity cache: concurrent calls of get_users and get_self_id.
CacheInit == CInit /\ PQuiet /\ WQuiet /\ DInit
CacheNext == CNext
SpecCache == CacheInit /\ [][CacheNext]_vars

\* The posting of the generated text by handle_app_mentions.
SplitInit == DInit /\ PQuiet /\ WQuiet /\ CInit
SplitNext == DNext
SpecSplit == SplitInit /\ [][SplitNext]_vars

\* ------------------------------------------------------------------ claims

Range(s) == {s[k] : k \in DOMAIN s}

\* The step in which invocation i ends (returns or raises).
Ends(i) == pc[i] # "done" /\ pc'[i] = "done"
\* Invocation i was refused as a duplicate: insert_user returned a handle.
Refused(i) == handle[i] # None
\* Invocation i is between its successful registration and its end.
Live(i) == registered[i] /\ Running(i)

\* C1: for any interleaving of concurrent starts for one pair, at most one
\* invocation is between its successful registration and its termination.
C1_AtMostOneLivePerPair ==
    \A p \in Pairs : Cardinality({i \in Inv : Live(i) /\ args[i] = p}) <= 1

\* C2: when the collection or fine-tuning collaborator fails, then as the
\* start ends the pair's job record no longer exists, a progress report with
\* the failure reason has been issued, and the failure is raised to the caller.
C2_CollaboratorFailureRollsBack ==
    [][\A i \in Inv :
          (Ends(i) /\ e[i] \in CollaboratorFailures) =>
              /\ jobs'[args[i]] = None
              /\ FailedMsg(user(i), e[i]) \in Range(progress'[i])
              /\ result'[i] \in Exceptions]_vars

\* C3: whenever an invocation that registered a job ends by a failure in any
\* of its steps, the job record of its pair is absent afterwards.
C3_NoRecordLeftAfterFailure ==
    [][\A i \in Inv :
          (Ends(i) /\ registered[i] /\ result'[i] \in Exceptions) =>
              jobs'[args[i]] = None]_vars

\* C6 (its clause on duplicate and failing registrations): a job record is
\* deleted only by an invocation that registered it and whose own collection
\* or fine-tuning call failed; an invocation that was refused as a duplicate,
\* or whose registration failed, deletes no record.
C6_OnlyRegisteredInvocationDeletes ==
    [][\A i \in Inv :
          (pc[i] = "delete_user" /\ pc'[i] = "done" /\ jobs[args[i]] # None) =>
              registered[i]]_vars

\* C8: once the job record of a pair is in state success, no later step
\* changes that record's state or deletes it.
C8_SuccessIsFinal ==
    [][\A p \in Pairs : jobs[p] = "success" => jobs'[p] = "success"]_vars

C5_SuccessSequence ==
    [][\A i \in Inv :
          (Ends(i) /\ ~Refused(i) /\ result'[i] = "returned") =>
              /\ calls[i] = [scrape |-> 1, finetune |-> 1]
              /\ samples[i] \in SampleCounts
              /\ progress'[i] = <<BeganMsg(user(i)),
                                  ScrapedMsg(user(i), samples[i]),
                                  TrainedMsg(user(i))>>
              /\ MULTI_WORKSPACE_SLACK_APP => jobs'[args[i]] = "success"]_vars

StepOf(i) == pc'[i] # pc[i]

\* C16: within one invocation the fine-tuning collaborator is called only
\* after the collection collaborator returned successfully in that same
\* invocation, once, and it is never called when collection failed.
C16_FinetuneOnlyAfterScrapeReturned ==
    /\ [](\A i \in Inv :
            /\ calls[i].finetune > 0 =>
                  (calls[i].scrape = 1 /\ samples[i] \in SampleCounts)
            /\ e[i] = "scrape" => calls[i].finetune = 0
            /\ calls[i].scrape <= 1 /\ calls[i].finetune <= 1)
    /\ [][\A i \in Inv :
            calls'[i].finetune > calls[i].finetune =>
                /\ calls[i].scrape = 1
                /\ samples[i] \in SampleCounts
                /\ e[i] = None]_vars

\* C16 witness: one invocation has called both collaborators, in that order,
\* while another one, whose collection failed, has ended without training.
C16_Witness ==
    \E i, j \in Inv :
        /\ calls[i] = [scrape |-> 1, finetune |-> 1]
        /\ e[j] = "scrape" /\ pc[j] = "done" /\ calls[j].finetune = 0

\* C17 (its frame clause): a start that finds a record already present for
\* its pair leaves that record, its existence and its state, unchanged in
\* every one of its steps.
C17_DuplicateLeavesRecordAlone ==
    [][\A i \in Inv :
          (Refused(i) /\ StepOf(i) /\ Running(i)) =>
              jobs'[args[i]] = jobs[args[i]]]_vars

\* The order of the job states along the linear state machine.
Rank(s) ==
    CASE s = None -> 0
      [] s = "registered" -> 1
      [] s = "training" -> 2
      [] s = "success" -> 3

\* C18: the stored job state only moves forward along the linear state
\* machine: it becomes training only by an invocation whose collection call
\* returned, success only by one whose fine-tuning call returned, it is never
\* set back to an earlier state, and the only other change is the deletion
\* of the record by an invocation that failed.
C18_StateOnlyMovesForward ==
    [][\A i \in Inv :
          (StepOf(i) /\ jobs'[args[i]] # jobs[args[i]]) =>
              \/ /\ jobs[args[i]] = None /\ jobs'[args[i]] = "registered"
              \/ /\ jobs[args[i]] = "registered" /\ jobs'[args[i]] = "training"
                 /\ samples[i] \in SampleCounts
              \/ /\ jobs[args[i]] = "training" /\ jobs'[args[i]] = "success"
                 /\ calls[i].finetune = 1 /\ e[i] = None
              \/ /\ jobs'[args[i]] = None /\ e[i] # None]_vars

\* C18, its clause on never going back: no step takes a record to an
\* earlier state of the state machine, deletion apart.
C18_NeverSetBack ==
    [][\A p \in Pairs :
          jobs'[p] # None => Rank(jobs'[p]) >= Rank(jobs[p])]_vars

\* The positions from which user_pipeline calls the job store.
StoreCalls == {"insert_user", "update_training", "update_success", "delete_user"}

\* C20: with the multi-workspace flag off, user_pipeline makes no job-store
\* call on any path (no insert, no state update, no delete), on success and
\* on failure alike; with the flag on every start begins by registering.
C20_NoStoreCallWithoutFlag ==
    /\ [](~MULTI_WORKSPACE_SLACK_APP =>
            /\ \A i \in Inv : pc[i] \notin StoreCalls /\ ~registered[i]
            /\ \A p \in Pairs : jobs[p] = None /\ ~rolledBack[p])
    /\ [][\A i \in Inv :
            (pc[i] = "idle" /\ StepOf(i)) =>
                (pc'[i] = "insert_user" <=> MULTI_WORKSPACE_SLACK_APP)]_vars

\* C20 witness: with the flag off, one start has returned after training
\* and another has ended by a collection failure.
C20_Witness ==
    /\ ~MULTI_WORKSPACE_SLACK_APP
    /\ \E i, j \in Inv :
          /\ pc[i] = "done" /\ result[i] = "returned" /\ calls[i].finetune = 1
          /\ pc[j] = "done" /\ result[j] = "scrape"

\* ------------------------------------------------------------------ claims on the window

RECURSIVE SumLen(_)
SumLen(parts) == IF parts = <<>> THEN 0 ELSE Len(Head(parts)) + SumLen(Tail(parts))

\* The oldest fragment of the window: the last one the scan collected.
Oldest == inputs[Len(inputs)]

\* C9 as stated: the rendered length of the window is at most the budget, or
\* exceeds it by at most the length of the oldest fragment included.
C9_WindowWithinBudget ==
    wpc = "done" =>
        \/ Len(input) <= MAX_INPUT_LENGTH
        \/ Len(input) - MAX_INPUT_LENGTH <= Len(Oldest)

\* C9 (amended): the window is not empty, and the lengths of its fragments,
\* the newline separators between them not counted, add up to at most the
\* budget or exceed it by at most the length of the oldest fragment included.
C9_FragmentsWithinBudget ==
    wpc = "done" =>
        /\ inputs # <<>>
        /\ total = SumLen(inputs)
        /\ Len(input) = SumLen(inputs) + Len(inputs) - 1
        /\ \/ SumLen(inputs) <= MAX_INPUT_LENGTH
           \/ SumLen(inputs) - MAX_INPUT_LENGTH <= Len(Oldest)

\* C9 witness: the scan stopped before the oldest message because the
\* fragments collected exceed the budget.
C9_Witness ==
    /\ wpc = "done"
    /\ Len(inputs) >= 2 /\ Len(inputs) < Len(messages)
    /\ SumLen(inputs) > MAX_INPUT_LENGTH

\* C10: the window consists of the k most recent messages for some k >= 1,
\* none skipped, and their fragments appear oldest first, newest last.
C10_WindowIsRecentSuffixInOrder ==
    wpc = "done" =>
        LET n == Len(messages) IN
        /\ \A a, b \in 1..n : a < b => messages[a].ts < messages[b].ts
        /\ \E k \in 1..n :
              LET suffix == [j \in 1..k |-> Fragment(messages[n - k + j])] IN
              /\ Len(inputs) = k
              /\ \A j \in 1..k : inputs[j] = suffix[k + 1 - j]
              /\ input = JoinLines(suffix)

\* C10 witness: a window of two messages with different fragments, cut from
\* a longer thread.
C10_Witness ==
    /\ wpc = "done"
    /\ Len(inputs) = 2 /\ Len(messages) > 2
    /\ inputs[1] # inputs[2]
    /\ inputs[1] # <<>> /\ inputs[2] # <<>>

\* The text s holds an occurrence of the text sub.
Contains(s, sub) ==
    \E k \in 1..(Len(s) - Len(sub) + 1) : SubSeq(s, k, k + Len(sub) - 1) = sub

\* C11: for every message text, also one in which the self-mention token
\* occurs several times, adjacent or nested, the fragment rendered into the
\* window holds no occurrence of the self-mention token.
C11_NoSelfMentionInWindow ==
    wpc = "done" =>
        \A k \in 1..Len(inputs) : ~Contains(inputs[k], SelfMention)

\* ------------------------------------------------------------------ claims about the identity cache

\* The cache a call reads and writes.
CacheOf(c) == IF fn[c] = "get_users" THEN users_cache ELSE self_cache

\* The fetches a call makes when it goes through to its store.
FullFetch(c) == IF fn[c] = "get_users" THEN NumPages ELSE 1

\* The step in which call c does its cache lookup.
LookupStep(c) == cpc[c] = "lookup" /\ cpc'[c] # "lookup"

\* C12: once a team has an entry, the entry is never removed, and every
\* get_users call whose lookup comes afterwards returns the entry as it
\* stands, without one call of users_list; a call that found no entry and
\* returned a table ran the paged listing exactly once, from the first page to
\* the last.  The same holds of get_self_id, auth_test and self_cache.
C12_LaterCallsHitTheCache ==
    /\ [][\A c \in CInv :
            (LookupStep(c) /\ CacheOf(c)[team[c]] # <<>>) =>
                /\ cpc'[c] = "done"
                /\ returned'[c] = CacheOf(c)[team[c]]
                /\ hit'[c]
                /\ fetches'[c] = 0
                /\ raised'[c] = None]_vars
    /\ [][\A t \in CTeams :
            /\ users_cache[t] # <<>> => users_cache'[t] # <<>>
            /\ self_cache[t] # <<>> => self_cache'[t] # <<>>]_vars
    /\ [](\A c \in CInv :
            /\ hit[c] => fetches[c] = 0
            /\ (cpc[c] = "done" /\ returned[c] # <<>> /\ ~hit[c]) =>
                   fetches[c] = FullFetch(c))

\* A get_users call and a get_self_id call have both been served from the
\* cache.
C12_Witness ==
    \E c, d \in CInv :
        /\ cpc[c] = "done" /\ fn[c] = "get_users" /\ hit[c]
        /\ returned[c] = users_cache[team[c]]
        /\ cpc[d] = "done" /\ fn[d] = "get_self_id" /\ hit[d]
        /\ returned[d] = self_cache[team[d]]

\* C13: the step in which users_list (on whichever page) or auth_test raises
\* ends the call without a returned value and writes neither cache; and a
\* lookup that finds no entry goes on to the fetch.
C13_FailureLeavesCacheAbsent ==
    /\ [][\A c \in CInv :
            (raised[c] = None /\ raised'[c] # None) =>
                /\ cpc'[c] = "done"
                /\ returned'[c] = <<>>
                /\ users_cache' = users_cache
                /\ self_cache' = self_cache]_vars
    /\ [][\A c \in CInv :
            (LookupStep(c) /\ CacheOf(c)[team[c]] = <<>>) =>
                /\ cpc'[c] = IF fn[c] = "get_users" THEN "users_list" ELSE "auth_test"
                /\ fetches'[c] = 0]_vars
    /\ [](\A c \in CInv : raised[c] # None => returned[c] = <<>> /\ ~hit[c])

\* users_list has failed on a later page, with members already collected, and
\* auth_test has failed, and the team has no entry in either cache.
C13_Witness ==
    \E c, d \in CInv :
        /\ raised[c] = "users_list" /\ fetches[c] > 1 /\ users[c] # {}
        /\ users_cache[team[c]] = <<>>
        /\ raised[d] = "auth_test"
        /\ self_cache[team[d]] = <<>>

\* The table get_users builds from pages 1..k when page j is listed before
\* (v[j] = 0) or after (v[j] = 1) the profile change.
RECURSIVE Listing(_, _)
Listing(v, k) ==
    IF k = 0 THEN {} ELSE AddMember(Listing(v, k - 1), Member(k, v[k]))

\* The tables of one complete pass over the listing: every page, each page no
\* older than the page before it.
CompleteTables ==
    { Listing(v, NumPages) :
        v \in { w \in [1..NumPages -> {0, 1}] :
                  \A j \in 1..(NumPages - 1) : w[j] <= w[j + 1] } }

\* C19: a team's users_cache entry is absent or the table of one complete
\* pass over the listing, and every write of the entry is the store of one
\* call that has listed every page, which puts its whole local table there.
C19_EntryIsOneCallsCompleteTable ==
    /\ [](\A t \in CTeams :
            users_cache[t] = <<>> \/ users_cache[t][1] \in CompleteTables)
    /\ [][\A t \in CTeams :
            users_cache'[t] # users_cache[t] =>
                \E c \in CInv :
                    /\ cpc[c] = "store_users" /\ team[c] = t
                    /\ fetches[c] = NumPages
                    /\ users_cache'[t] = <<users[c]>>]_vars

\* Two calls for one team both found no entry, both listed every page, built
\* different tables, and the entry is the table of the one that stored last.
C19_Witness ==
    \E c, d \in CInv :
        /\ c # d /\ team[c] = team[d]
        /\ fn[c] = "get_users" /\ fn[d] = "get_users"
        /\ cpc[c] = "done" /\ cpc[d] = "done"
        /\ ~hit[c] /\ ~hit[d]
        /\ fetches[c] = NumPages /\ fetches[d] = NumPages
        /\ returned[c] # <<>> /\ returned[d] # <<>>
        /\ returned[c] # returned[d]
        /\ users_cache[team[d]] = returned[d]

\* ------------------------------------------------------------------ claims about the posting of the generated text

\* The prefixes known when the text is split.
Known == Range(Alternatives(speakers))

\* A known prefix occurs somewhere in s.
HasKnownPrefix(s) == \E prefix \in Known : Contains(s, prefix)

\* s is made of known prefixes only, one after the other.
RECURSIVE Gap(_)
Gap(s) ==
    \/ s = <<>>
    \/ \E prefix \in Known :
          StartsWith(s, prefix) /\ Gap(SubSeq(s, Len(prefix) + 1, Len(s)))

\* s is the fragments of frags, in their order, with known prefixes and
\* nothing else before, between and after them, and at least one prefix
\* between two fragments.
RECURSIVE Interleaves(_, _, _)
Interleaves(s, frags, inner) ==
    \E g \in 0..Len(s) :
        /\ Gap(SubSeq(s, 1, g))
        /\ IF frags = <<>>
           THEN g = Len(s)
           ELSE /\ inner => g > 0
                /\ StartsWith(SubSeq(s, g + 1, Len(s)), Head(frags))
                /\ Interleaves(SubSeq(s, g + 1 + Len(Head(frags)), Len(s)),
                               Tail(frags), TRUE)

\* C14: when the loop over the split text has ended, the texts posted are not
\* empty, hold no known prefix, and are, in the order posted, what the
\* generated text has before, between and after its known prefixes.
C14_PostsTheNonEmptyPieces ==
    dpc = "done" /\ res # <<>> =>
        /\ \A k \in 1..Len(posted) :
              posted[k] # <<>> /\ ~HasKnownPrefix(posted[k])
        /\ Interleaves(res, posted, FALSE)

\* The text began with a known prefix, ended with one, and had two known
\* prefixes in a row: three empty pieces, none posted, and two pieces posted.
C14_Witness ==
    /\ dpc = "done"
    /\ Len(split_messages) >= 3
    /\ split_messages[1] = <<>>
    /\ split_messages[Len(split_messages)] = <<>>
    /\ Len(posted) >= 1
    /\ Len(posted) < Len(split_messages) - 2

\* str.strip(): s without its leading and trailing blanks.
Strip(s) ==
    LET inked == {k \in 1..Len(s) : s[k] # " "} IN
    IF inked = {} THEN <<>>
    ELSE SubSeq(s, CHOOSE k \in inked : \A j \in inked : k <= j,
                   CHOOSE k \in inked : \A j \in inked : j <= k)

\* The loop over the pieces of a text without a known prefix has ended.
NoMatchDone == dpc = "done" /\ split_messages # <<>> /\ ~HasKnownPrefix(res)

====
